---- MODULE Spec2Model ----
(***************************************************************************)
(* Model of the conthabil gazette pipeline.                                *)
(*                                                                         *)
(*   Spec      run_full_workflow (main_runner.py): scrape, download,       *)
(*             upload, store, with the two worker pools of scraper.py and  *)
(*             uploader.py and the storage client of api_client.py.        *)
(*   SpecScrape  step 1 alone, with two links of the same file name.        *)
(*   SpecPools   steps 1 and 2 on batches larger than the worker pools.     *)
(*   SpecApi   POST /gazettes/ (main.py, crud.py) served by concurrent     *)
(*             request handlers on the shared gazettes table.              *)
(*   SpecQuery GET /gazettes/ (main.py, crud.py) against a table filled by *)
(*             one client posting sequentially.                            *)
(*                                                                         *)
(* Texts (file names, response bodies, URLs) are tuples of one-character   *)
(* strings, so that basename, strip, the date regex and strptime are       *)
(* computed and not assumed.                                               *)
(***************************************************************************)
EXTENDS Integers, Sequences, FiniteSets, TLC

\* ------------------------------------------------------------------ bounds
MaxLinks == 3        \* anchors in the results table
MaxRequests == 2     \* request handlers running at the same time
MaxBatch == 6        \* anchors in the results table, for the pools alone

\* ------------------------------------------------------- program constants
DownloadWorkers == 2
UploadWorkers == 5
DOWNLOAD_PATH == "/app/downloads"

\* ------------------------------------------------------------------- texts
Digits == {"0", "1", "2", "3", "4", "5", "6", "7", "8", "9"}
Whitespace == {" ", "\n", "\t", "\r"}

DigitVal(c) ==
  CASE c = "0" -> 0 [] c = "1" -> 1 [] c = "2" -> 2 [] c = "3" -> 3
    [] c = "4" -> 4 [] c = "5" -> 5 [] c = "6" -> 6 [] c = "7" -> 7
    [] c = "8" -> 8 [] c = "9" -> 9

Min(a, b) == IF a < b THEN a ELSE b

\* os.path.basename on a path split at "/": the last component
Basename(path) == path[Len(path)]

\* os.path.join(self.download_path, filename)
SavePath(link) == <<DOWNLOAD_PATH, Basename(link)>>

\* str.strip(): drop leading and trailing whitespace
RECURSIVE LStrip(_)
LStrip(s) ==
  IF s # <<>> /\ Head(s) \in Whitespace THEN LStrip(Tail(s)) ELSE s

RECURSIVE RStrip(_)
RStrip(s) ==
  IF s # <<>> /\ s[Len(s)] \in Whitespace
  THEN RStrip(SubSeq(s, 1, Len(s) - 1)) ELSE s

Strip(s) == RStrip(LStrip(s))

\* ------------------------------------------------------------ date parsing
\* re.search(r"(\d{8})", filename): the leftmost run of 8 digits, as a
\* 0-or-1 element sequence (empty: no match)
AllDigits(s, i) == \A k \in i..(i + 7) : s[k] \in Digits

SearchDate(filename) ==
  LET starts == {i \in 1..(Len(filename) - 7) : AllDigits(filename, i)}
  IN  IF starts = {} THEN <<>>
      ELSE LET i == CHOOSE m \in starts : \A k \in starts : m <= k
           IN  <<SubSeq(filename, i, i + 7)>>

IsLeap(y) == (y % 4 = 0 /\ y % 100 # 0) \/ y % 400 = 0

DaysInMonth(y, m) ==
  IF m = 2 THEN (IF IsLeap(y) THEN 29 ELSE 28)
  ELSE IF m \in {4, 6, 9, 11} THEN 30 ELSE 31

\* datetime.strptime(date_str, "%Y%m%d") on 8 digits: the date <<y, m, d>>
\* as a 1-element sequence, or empty for ValueError
Strptime(tok) ==
  LET y == DigitVal(tok[1]) * 1000 + DigitVal(tok[2]) * 100
           + DigitVal(tok[3]) * 10 + DigitVal(tok[4])
      m == DigitVal(tok[5]) * 10 + DigitVal(tok[6])
      d == DigitVal(tok[7]) * 10 + DigitVal(tok[8])
  IN  IF y >= 1 /\ m \in 1..12 /\ d >= 1 /\ d <= DaysInMonth(y, m)
      THEN <<(<<y, m, d>>)>> ELSE <<>>

\* the try block of the storage loop up to the store call: the publication
\* date of a file path, or empty when ValueError is caught
PublicationDate(file_path) ==
  LET match == SearchDate(Basename(file_path))
  IN  IF match = <<>> THEN <<>> ELSE Strptime(match[1])

\* ------------------------------------------------------------- input sets
NameA == <<"g", "2", "0", "2", "5", "0", "7", "0", "1", ".", "p">>
NameB == <<"g", "2", "0", "2", "5", "0", "7", "1", "5", ".", "p">>
NameNoToken == <<"g", "2", "0", "2", "5", ".", "p">>
NameBadDate == <<"g", "2", "0", "2", "5", "0", "2", "3", "0", ".", "p">>

Links == {<<"portal", NameA>>, <<"portal", NameB>>,
          <<"portal", NameNoToken>>, <<"portal", NameBadDate>>}

\* the portal's links and one more with the file name of another
MirrorLinks == Links \cup {<<"mirror", NameA>>}

\* a single link, for batches larger than a pool
PoolLinks == {<<"portal", NameA>>}

RECURSIVE SeqsUpTo(_, _)
SeqsUpTo(S, n) ==
  IF n = 0 THEN {<<>>}
  ELSE LET shorter == SeqsUpTo(S, n - 1)
       IN  shorter \cup {Append(s, x) : s \in {t \in shorter : Len(t) = n - 1}, x \in S}

Bodies == {<<" ", "u", "1", "\n">>, <<"u", "2">>, <<"u", "3", " ">>}

\* a single response body, for batches larger than a pool
PoolBodies == {<<"u", "2">>}

DownloadOutcomes == {"ok", "request_error", "status_error", "os_error"}
UploadOutcomes == {"ok", "request_error", "io_error", "status_error"}
StoreOutcomes == {"ok", "status_error", "request_error"}

VARIABLES
  pc,               \* position of run_full_workflow
  driver,           \* Scraper.driver: "none", "open", "quit"
  links,            \* pdf_links
  dl,               \* download task of each link
  dlCall,           \* _download_all_files: "none", "running", "returned", "raised"
  downloaded_paths,
  ul,               \* upload task of each path: [st, body]
  ulCall,           \* upload_files: "none", "running", "returned", "raised"
  uploaded_urls,
  upload_map,       \* dict in insertion order: sequence of <<url, path>>
  storeLog,         \* one entry per iteration of the storage loop
  disk,             \* files under the download directory: <<path, content>>
  table,            \* rows of gazettes
  nextId,           \* next primary key
  req,              \* request handlers of POST /gazettes/
  got               \* the last GET /gazettes/ and its response

flowVars == <<pc, driver, links, dl, dlCall, downloaded_paths, ul, ulCall,
              uploaded_urls, upload_map, storeLog, disk>>
apiVars == <<table, nextId, req, got>>
vars == <<pc, driver, links, dl, dlCall, downloaded_paths, ul, ulCall,
          uploaded_urls, upload_map, storeLog, disk, table, nextId, req,
          got>>

\* ------------------------------------------------------------ worker pools
Running(tasks) ==
  {i \in DOMAIN tasks : tasks[i].st \in {"running", "writing"}}
Queued(tasks) == {i \in DOMAIN tasks : tasks[i].st = "queued"}

\* variant: every submitted task gets a thread of its own
CanStartNoLimit(tasks, i, workers) ==
  /\ i \in Queued(tasks)
  /\ \A j \in Queued(tasks) : i <= j

\* a worker takes the oldest queued task when one of max_workers is free
CanStart(tasks, i, workers) ==
  /\ i \in Queued(tasks)
  /\ \A j \in Queued(tasks) : i <= j
  /\ Cardinality(Running(tasks)) < workers

\* errors the worker function catches (it then returns None); any other
\* error leaves the worker function as an exception
DownloadCaught == {"request_error"}
UploadCaught == {"request_error", "io_error"}

\* how a worker function ends: a caught error makes it return None, any
\* other outcome is kept (the value, or the exception that leaves it)
TaskEnd(o, caught) == IF o \in caught THEN "none" ELSE o

\* list(executor.map(...)) re-raises the first result, in input order, that
\* is an exception
MapRaises(tasks) ==
  \E i \in DOMAIN tasks :
    /\ tasks[i].st \notin {"queued", "running", "writing", "cancelled", "ok",
                            "none"}
    /\ \A j \in 1..(i - 1) : tasks[j].st \in {"ok", "none"}

MapDone(tasks) ==
  \A i \in DOMAIN tasks : tasks[i].st \in {"ok", "none"}

NewTasks(n) == [i \in 1..n |-> [st |-> "queued", body |-> <<>>]]

\* variant: the response is read but nothing is saved
DiskWriteNothing(d, path, content) == d

\* open(save_path, "wb") and the writes of the chunks: the file at the path
\* is created or replaced, and holds the bytes of this response
DiskWrite(d, path, content) ==
  {f \in d : f[1] # path} \cup {<<path, content>>}

\* variant: __exit__ leaves the session as it is
ScraperExitNoQuit(d) == d

\* Scraper.__exit__: an open session is quit
ScraperExit(d) == IF d = "open" THEN "quit" ELSE d

\* [path for path in results if path is not None]
RECURSIVE DownloadedFiles(_, _)
DownloadedFiles(ls, tasks) ==
  IF ls = <<>> THEN <<>>
  ELSE (IF Head(tasks).st = "ok" THEN <<SavePath(Head(ls))>> ELSE <<>>)
       \o DownloadedFiles(Tail(ls), Tail(tasks))

\* [url for url in results if url is not None], url = response.text.strip()
RECURSIVE UploadedUrls(_)
UploadedUrls(tasks) ==
  IF tasks = <<>> THEN <<>>
  ELSE (IF Head(tasks).st = "ok" THEN <<Strip(Head(tasks).body)>> ELSE <<>>)
       \o UploadedUrls(Tail(tasks))

\* ------------------------------------------------------------ orchestrator
\* variant: step 2 is entered whatever step 1 produced
AfterScrapeNoGate(paths) == "upload"

\* the gate after step 1
AfterScrape(paths) == IF paths = <<>> THEN "no_files" ELSE "upload"

\* the gate after step 2
AfterUpload(urls) == IF urls = <<>> THEN "no_uploads" ELSE "store"

\* dict.__setitem__ on an insertion-ordered dict
DictPut(d, k, v) ==
  IF \E i \in DOMAIN d : d[i][1] = k
  THEN [i \in DOMAIN d |-> IF d[i][1] = k THEN <<k, v>> ELSE d[i]]
  ELSE Append(d, <<k, v>>)

RECURSIVE DictZipN(_, _, _)
DictZipN(keys, vals, n) ==
  IF n = 0 THEN <<>>
  ELSE DictPut(DictZipN(keys, vals, n - 1), keys[n], vals[n])

\* dict(zip(uploaded_urls, downloaded_paths))
DictZip(keys, vals) == DictZipN(keys, vals, Min(Len(keys), Len(vals)))

\* ApiClient.store_gazette: True, or False for the two caught errors
StoreGazette(outcome) == outcome = "ok"

\* variant: store_gazette catches httpx.RequestError only
StoreCallPropagatesStatus(outcome) == outcome = "status_error"

\* whether an error of the store call leaves store_gazette: both
\* HTTPStatusError and RequestError are caught there
StoreCallPropagates(outcome) == FALSE

\* variant: the except clause of the storage loop misses ValueError
ParseErrorUncaught == FALSE

\* the storage loop catches the ValueError of a file name without a date
ParseErrorCaught == TRUE

\* ------------------------------------------------------------ storage API
\* An Optional[int] query parameter is a 0-or-1 element sequence.
ApiUrls == {<<"u", "1">>, <<"u", "2">>}
ApiDates == {<<2025, 7, 15>>, <<2025, 8, 1>>, <<2024, 7, 15>>}
Months == {<<>>, <<7>>}
Years == {<<>>, <<0>>, <<2025>>}
SkipLimits == {<<0, 100>>, <<1, 1>>}

IdleRequest == [pc |-> "idle", url |-> <<>>, publication_date |-> <<>>,
                row |-> <<>>]

\* variant: the lookup also compares the publication date
FilterByUrlAndDate(tbl, gazette) ==
  {g \in tbl : g.url = gazette.url
                /\ g.publication_date = gazette.publication_date}

\* db.query(Gazette).filter(Gazette.url == gazette.url): the matching rows
FilterByUrl(tbl, gazette) == {g \in tbl : g.url = gazette.url}

\* the unique index on gazettes.url refuses a second row for a url
UniqueViolation(tbl, u) == \E g \in tbl : g.url = u

\* truth value of an Optional[int]: None and 0 are false
Truthy(opt) == opt # <<>> /\ opt[1] # 0

\* extract("month", ...) == month and extract("year", ...) == year
GetGazettesByMonthYear(tbl, month, year) ==
  {g \in tbl : g.publication_date[2] = month /\ g.publication_date[1] = year}

\* offset(skip).limit(limit) without ORDER BY: any rows, that many of them
GetGazettes(tbl, skip, limit) ==
  LET left == IF Cardinality(tbl) > skip THEN Cardinality(tbl) - skip ELSE 0
  IN  {S \in SUBSET tbl : Cardinality(S) = Min(limit, left)}

\* POST /gazettes/ arrives with a validated body
CreateBegin(r) ==
  /\ req[r].pc = "idle"
  /\ \E u \in ApiUrls, d \in ApiDates :
       req' = [req EXCEPT ![r] = [pc |-> "lookup", url |-> u,
                                  publication_date |-> d, row |-> <<>>]]
  /\ UNCHANGED <<table, nextId, got>>
  /\ UNCHANGED flowVars

\* the query by url; an existing row is returned at once
CreateLookup(r) ==
  /\ req[r].pc = "lookup"
  /\ LET rows == FilterByUrl(table, req[r])
     IN  IF rows # {}
         THEN req' = [req EXCEPT ![r].pc = "done",
                                 ![r].row = <<CHOOSE g \in rows : TRUE>>]
         ELSE req' = [req EXCEPT ![r].pc = "add"]
  /\ UNCHANGED <<table, nextId, got>>
  /\ UNCHANGED flowVars

\* db.add: the new object is pending in the handler's own session
CreateAdd(r) ==
  /\ req[r].pc = "add"
  /\ req' = [req EXCEPT ![r].pc = "commit"]
  /\ UNCHANGED <<table, nextId, got>>
  /\ UNCHANGED flowVars

\* db.commit (the INSERT is flushed here) and db.refresh; the unique index
\* makes the commit fail with IntegrityError, which nothing catches
CreateCommit(r) ==
  /\ req[r].pc = "commit"
  /\ IF UniqueViolation(table, req[r].url)
     THEN /\ req' = [req EXCEPT ![r].pc = "error"]
          /\ UNCHANGED <<table, nextId>>
     ELSE LET g == [id |-> nextId, url |-> req[r].url,
                    publication_date |-> req[r].publication_date]
          IN  /\ table' = table \cup {g}
              /\ nextId' = nextId + 1
              /\ req' = [req EXCEPT ![r].pc = "done", ![r].row = <<g>>]
  /\ UNCHANGED got
  /\ UNCHANGED flowVars

\* the response is sent and the handler is free again
Respond(r) ==
  /\ req[r].pc \in {"done", "error"}
  /\ req' = [req EXCEPT ![r] = IdleRequest]
  /\ UNCHANGED <<table, nextId, got>>
  /\ UNCHANGED flowVars

\* GET /gazettes/
ReadGazettes ==
  /\ \E month \in Months, year \in Years, sl \in SkipLimits :
       LET q == [month |-> month, year |-> year, skip |-> sl[1],
                 limit |-> sl[2]]
       IN  IF Truthy(month) /\ Truthy(year)
           THEN got' = q @@ [status |-> 200,
                  body |-> GetGazettesByMonthYear(table, month[1], year[1])]
           ELSE IF (Truthy(month) /\ ~Truthy(year))
                   \/ (~Truthy(month) /\ Truthy(year))
           THEN got' = q @@ [status |-> 400, body |-> {}]
           ELSE \E rows \in GetGazettes(table, sl[1], sl[2]) :
                  got' = q @@ [status |-> 200, body |-> rows]
  /\ UNCHANGED <<table, nextId, req>>
  /\ UNCHANGED flowVars


\* ------------------------------------------------------------------- Init
Init ==
  /\ pc = "start"
  /\ driver = "none"
  /\ links = <<>>
  /\ dl = <<>>
  /\ dlCall = "none"
  /\ downloaded_paths = <<>>
  /\ ul = <<>>
  /\ ulCall = "none"
  /\ uploaded_urls = <<>>
  /\ upload_map = <<>>
  /\ storeLog = <<>>
  /\ disk = {}
  /\ table = {}
  /\ nextId = 1
  /\ req = [r \in 1..MaxRequests |-> IdleRequest]
  /\ got = [status |-> 0, month |-> <<>>, year |-> <<>>, skip |-> 0,
            limit |-> 0, body |-> {}]

\* ---------------------------------------------------------------- scraper
\* Scraper.__enter__ / _setup_driver
SetupDriver ==
  /\ pc = "start"
  /\ \E ok \in BOOLEAN :
       IF ok THEN driver' = "open" /\ pc' = "search"
             ELSE driver' = driver /\ pc' = "scrape_error"
  /\ UNCHANGED <<links, dl, dlCall, downloaded_paths, ul, ulCall,
                 uploaded_urls, upload_map, storeLog, disk>>
  /\ UNCHANGED apiVars

\* Scraper._perform_search; on failure __exit__ quits the driver
PerformSearch ==
  /\ pc = "search"
  /\ \E ok \in BOOLEAN :
       IF ok THEN driver' = driver /\ pc' = "paginate"
             ELSE driver' = ScraperExit(driver) /\ pc' = "scrape_error"
  /\ UNCHANGED <<links, dl, dlCall, downloaded_paths, ul, ulCall,
                 uploaded_urls, upload_map, storeLog, disk>>
  /\ UNCHANGED apiVars

\* Scraper._set_pagination: a failure is logged and swallowed
SetPagination ==
  /\ pc = "paginate"
  /\ \E ok \in BOOLEAN : pc' = "links"
  /\ UNCHANGED <<driver, links, dl, dlCall, downloaded_paths, ul, ulCall,
                 uploaded_urls, upload_map, storeLog, disk>>
  /\ UNCHANGED apiVars

\* Scraper._find_pdf_links, then the submission of the download batch
FindPdfLinksIn(lists) ==
  /\ pc = "links"
  /\ \E ls \in lists :
       /\ links' = ls
       /\ dl' = NewTasks(Len(ls))
  /\ dlCall' = "running"
  /\ pc' = "download"
  /\ UNCHANGED <<driver, downloaded_paths, ul, ulCall, uploaded_urls,
                 upload_map, storeLog, disk>>
  /\ UNCHANGED apiVars

\* the rows of the results table, each link listed once (a link that is
\* listed twice is a case of the scrape stage, explored by SpecScrape)
FindPdfLinks ==
  FindPdfLinksIn({ls \in SeqsUpTo(Links, MaxLinks) :
                   \A i, j \in DOMAIN ls : ls[i] = ls[j] => i = j})

\* a download worker picks up a link
DownloadStart(i) ==
  /\ pc = "download"
  /\ CanStart(dl, i, DownloadWorkers)
  /\ dl' = [dl EXCEPT ![i].st = "running"]
  /\ UNCHANGED <<pc, driver, links, dlCall, downloaded_paths, ul, ulCall,
                 uploaded_urls, upload_map, storeLog, disk>>
  /\ UNCHANGED apiVars

\* the response has a success status: the file is opened and written
DownloadWrite(i) ==
  /\ pc = "download"
  /\ i \in DOMAIN dl /\ dl[i].st = "running"
  /\ dl' = [dl EXCEPT ![i].st = "writing"]
  /\ disk' = DiskWrite(disk, SavePath(links[i]), links[i])
  /\ UNCHANGED <<pc, driver, links, dlCall, downloaded_paths, ul, ulCall,
                 uploaded_urls, upload_map, storeLog>>
  /\ UNCHANGED apiVars

\* Scraper._download_file ends: with an error before the file is opened,
\* or, once the file is written, with its path or an error of the stream
DownloadFile(i) ==
  /\ pc = "download"
  /\ i \in Running(dl)
  /\ \E o \in DownloadOutcomes :
       /\ IF dl[i].st = "writing" THEN o # "status_error" ELSE o # "ok"
       /\ dl' = [dl EXCEPT ![i].st = TaskEnd(o, DownloadCaught)]
  /\ UNCHANGED <<pc, driver, links, dlCall, downloaded_paths, ul, ulCall,
                 uploaded_urls, upload_map, storeLog, disk>>
  /\ UNCHANGED apiVars

\* the result iterator meets an exception and cancels what is still queued
DownloadCancel ==
  /\ pc = "download"
  /\ MapRaises(dl)
  /\ Queued(dl) # {}
  /\ dl' = [i \in DOMAIN dl |->
              IF dl[i].st = "queued" THEN [dl[i] EXCEPT !.st = "cancelled"]
              ELSE dl[i]]
  /\ UNCHANGED <<pc, driver, links, dlCall, downloaded_paths, ul, ulCall,
                 uploaded_urls, upload_map, storeLog, disk>>
  /\ UNCHANGED apiVars

\* the exception leaves the pool, the with block (driver.quit) and is
\* caught by run_full_workflow
DownloadRaise ==
  /\ pc = "download"
  /\ MapRaises(dl)
  /\ Queued(dl) = {} /\ Running(dl) = {}
  /\ dlCall' = "raised"
  /\ driver' = ScraperExit(driver)
  /\ pc' = "scrape_error"
  /\ UNCHANGED <<links, dl, downloaded_paths, ul, ulCall, uploaded_urls,
                 upload_map, storeLog, disk>>
  /\ UNCHANGED apiVars

\* _download_all_files returns, the with block ends, the first gate
DownloadReturn ==
  /\ pc = "download"
  /\ MapDone(dl)
  /\ dlCall' = "returned"
  /\ driver' = ScraperExit(driver)
  /\ downloaded_paths' = DownloadedFiles(links, dl)
  /\ pc' = AfterScrape(downloaded_paths')
  /\ IF pc' = "upload"
     THEN ul' = NewTasks(Len(downloaded_paths')) /\ ulCall' = "running"
     ELSE UNCHANGED <<ul, ulCall>>
  /\ UNCHANGED <<links, dl, uploaded_urls, upload_map, storeLog, disk>>
  /\ UNCHANGED apiVars

\* --------------------------------------------------------------- uploader
UploadStart(i) ==
  /\ pc = "upload"
  /\ CanStart(ul, i, UploadWorkers)
  /\ ul' = [ul EXCEPT ![i].st = "running"]
  /\ UNCHANGED <<pc, driver, links, dl, dlCall, downloaded_paths, ulCall,
                 uploaded_urls, upload_map, storeLog, disk>>
  /\ UNCHANGED apiVars

\* Uploader._upload_file ends; a success carries one of the given response
\* bodies
UploadFileWith(bodies, i) ==
  /\ pc = "upload"
  /\ i \in Running(ul)
  /\ \E e \in {TaskEnd(o, UploadCaught) : o \in UploadOutcomes} :
       IF e = "ok"
       THEN \E b \in bodies : ul' = [ul EXCEPT ![i] = [st |-> "ok", body |-> b]]
       ELSE ul' = [ul EXCEPT ![i].st = e]
  /\ UNCHANGED <<pc, driver, links, dl, dlCall, downloaded_paths, ulCall,
                 uploaded_urls, upload_map, storeLog, disk>>
  /\ UNCHANGED apiVars

UploadFile(i) == UploadFileWith(Bodies, i)

UploadCancel ==
  /\ pc = "upload"
  /\ MapRaises(ul)
  /\ Queued(ul) # {}
  /\ ul' = [i \in DOMAIN ul |->
              IF ul[i].st = "queued" THEN [ul[i] EXCEPT !.st = "cancelled"]
              ELSE ul[i]]
  /\ UNCHANGED <<pc, driver, links, dl, dlCall, downloaded_paths, ulCall,
                 uploaded_urls, upload_map, storeLog, disk>>
  /\ UNCHANGED apiVars

\* the exception leaves upload_files and is caught by run_full_workflow
UploadRaise ==
  /\ pc = "upload"
  /\ MapRaises(ul)
  /\ Queued(ul) = {} /\ Running(ul) = {}
  /\ ulCall' = "raised"
  /\ pc' = "upload_error"
  /\ UNCHANGED <<driver, links, dl, dlCall, downloaded_paths, ul,
                 uploaded_urls, upload_map, storeLog, disk>>
  /\ UNCHANGED apiVars

\* upload_files returns, the second gate, the upload map
UploadReturn ==
  /\ pc = "upload"
  /\ MapDone(ul)
  /\ ulCall' = "returned"
  /\ uploaded_urls' = UploadedUrls(ul)
  /\ pc' = AfterUpload(uploaded_urls')
  /\ IF pc' = "store"
     THEN upload_map' = DictZip(uploaded_urls', downloaded_paths)
     ELSE UNCHANGED upload_map
  /\ UNCHANGED <<driver, links, dl, dlCall, downloaded_paths, ul, storeLog,
                 disk>>
  /\ UNCHANGED apiVars

\* ---------------------------------------------------------------- storage
\* one iteration of the storage loop
StoreItem ==
  /\ pc = "store"
  /\ Len(storeLog) < Len(upload_map)
  /\ LET item == upload_map[Len(storeLog) + 1]
         date == PublicationDate(item[2])
     IN  IF date = <<>>
         THEN /\ storeLog' = Append(storeLog,
                   [url |-> item[1], path |-> item[2], call |-> FALSE,
                    date |-> <<>>, stored |-> FALSE])
              /\ pc' = IF ParseErrorCaught THEN pc ELSE "store_error"
         ELSE \E e \in {<<StoreGazette(o), StoreCallPropagates(o)>> :
                           o \in StoreOutcomes} :
                /\ storeLog' = Append(storeLog,
                     [url |-> item[1], path |-> item[2], call |-> TRUE,
                      date |-> date[1], stored |-> e[1]])
                /\ pc' = IF e[2] THEN "store_error" ELSE pc
  /\ UNCHANGED <<driver, links, dl, dlCall, downloaded_paths, ul, ulCall,
                 uploaded_urls, upload_map, disk>>
  /\ UNCHANGED apiVars

\* "Full workflow completed."
Complete ==
  /\ pc = "store"
  /\ Len(storeLog) = Len(upload_map)
  /\ pc' = "completed"
  /\ UNCHANGED <<driver, links, dl, dlCall, downloaded_paths, ul, ulCall,
                 uploaded_urls, upload_map, storeLog, disk>>
  /\ UNCHANGED apiVars

Next ==
  \/ SetupDriver
  \/ PerformSearch
  \/ SetPagination
  \/ FindPdfLinks
  \/ \E i \in DOMAIN dl : DownloadStart(i)
  \/ \E i \in DOMAIN dl : DownloadWrite(i)
  \/ \E i \in DOMAIN dl : DownloadFile(i)
  \/ DownloadCancel
  \/ DownloadRaise
  \/ DownloadReturn
  \/ \E i \in DOMAIN ul : UploadStart(i)
  \/ \E i \in DOMAIN ul : UploadFile(i)
  \/ UploadCancel
  \/ UploadRaise
  \/ UploadReturn
  \/ StoreItem
  \/ Complete

Spec == Init /\ [][Next]_vars

\* step 1 alone, on a results table that may hold two links with the same
\* file name
ScrapeNext ==
  \/ SetupDriver
  \/ PerformSearch
  \/ SetPagination
  \/ FindPdfLinksIn(SeqsUpTo(MirrorLinks, MaxLinks))
  \/ \E i \in DOMAIN dl : DownloadStart(i)
  \/ \E i \in DOMAIN dl : DownloadWrite(i)
  \/ \E i \in DOMAIN dl : DownloadFile(i)
  \/ DownloadCancel
  \/ DownloadRaise
  \/ DownloadReturn

SpecScrape == Init /\ [][ScrapeNext]_vars

\* steps 1 and 2 on batches larger than both pools
PoolNext ==
  \/ SetupDriver
  \/ PerformSearch
  \/ SetPagination
  \/ FindPdfLinksIn(SeqsUpTo(PoolLinks, MaxBatch))
  \/ \E i \in DOMAIN dl : DownloadStart(i)
  \/ \E i \in DOMAIN dl : DownloadWrite(i)
  \/ \E i \in DOMAIN dl : DownloadFile(i)
  \/ DownloadCancel
  \/ DownloadRaise
  \/ DownloadReturn
  \/ \E i \in DOMAIN ul : UploadStart(i)
  \/ \E i \in DOMAIN ul : UploadFileWith(PoolBodies, i)
  \/ UploadCancel
  \/ UploadRaise
  \/ UploadReturn

SpecPools == Init /\ [][PoolNext]_vars

\* concurrent handlers of POST /gazettes/
ApiNext ==
  \/ \E r \in 1..MaxRequests : CreateBegin(r)
  \/ \E r \in 1..MaxRequests : CreateLookup(r)
  \/ \E r \in 1..MaxRequests : CreateAdd(r)
  \/ \E r \in 1..MaxRequests : CreateCommit(r)
  \/ \E r \in 1..MaxRequests : Respond(r)

SpecApi == Init /\ [][ApiNext]_vars

\* one client: posts one after the other, and queries
QueryNext ==
  \/ CreateBegin(1)
  \/ CreateLookup(1)
  \/ CreateAdd(1)
  \/ CreateCommit(1)
  \/ Respond(1)
  \/ ReadGazettes

SpecQuery == Init /\ [][QueryNext]_vars

\* ================================================================= claims
Range(s) == {s[i] : i \in DOMAIN s}

\* names of the input set whose 8-digit token is a calendar date
ValidTokenNames == {NameA, NameB}

\* C1: a POST whose url is already stored when the handler looks it up
\* returns the stored row (its id, its original publication date) and
\* leaves the table as it is; no step removes or changes a stored row.
C1_ExistingUrlReturned ==
  [][/\ \A r \in 1..MaxRequests :
          (req[r].pc = "lookup" /\ req'[r].pc # "lookup"
           /\ \E g \in table : g.url = req[r].url)
          => /\ req'[r].pc = "done"
             /\ req'[r].row # <<>>
             /\ req'[r].row[1] \in table
             /\ req'[r].row[1].url = req[r].url
             /\ table' = table
     /\ table \subseteq table']_vars

\* C1 witness: a handler has answered with a stored row whose publication
\* date differs from the one in its request
C1_Witness ==
  \E r \in 1..MaxRequests :
    /\ req[r].pc = "done"
    /\ req[r].row[1] \in table
    /\ req[r].row[1].publication_date # req[r].publication_date

\* C2: with interleaved handlers no two rows share a url, and no handler
\* ends in an error: each one that has ended holds the stored row of its url.
C2_InterleavedCreate ==
  /\ \A g \in table, h \in table : g.url = h.url => g = h
  /\ \A r \in 1..MaxRequests :
       /\ req[r].pc # "error"
       /\ req[r].pc = "done"
          => req[r].row # <<>> /\ req[r].row[1] \in table
             /\ req[r].row[1].url = req[r].url

\* C3: once every download task of the batch has ended, the batch call has
\* returned (not raised) and its result is the save path of exactly the
\* links whose download succeeded.
C3_DownloadFailureIsolated ==
  dlCall \in {"returned", "raised"}
  => /\ dlCall = "returned"
     /\ Range(downloaded_paths)
          = {SavePath(links[i]) : i \in {j \in DOMAIN dl : dl[j].st = "ok"}}
     /\ Len(downloaded_paths)
          = Cardinality({j \in DOMAIN dl : dl[j].st = "ok"})

\* C4: once every upload task of the batch has ended, the batch call has
\* returned (not raised) and its result is the trimmed response body of
\* exactly the files whose upload succeeded.
C4_UploadFailureIsolated ==
  ulCall \in {"returned", "raised"}
  => /\ ulCall = "returned"
     /\ Range(uploaded_urls)
          = {Strip(ul[i].body) : i \in {j \in DOMAIN ul : ul[j].st = "ok"}}
     /\ Len(uploaded_urls)
          = Cardinality({j \in DOMAIN ul : ul[j].st = "ok"})
     /\ \A u \in Range(uploaded_urls) :
          u = <<>> \/ (u[1] \notin Whitespace /\ u[Len(u)] \notin Whitespace)

\* C5: every store call carries the date of the file name of a file whose
\* upload returned the url of that call.
C5_DateOfOwnFile ==
  \A k \in DOMAIN storeLog :
    storeLog[k].call
    => \E i \in DOMAIN ul :
         /\ ul[i].st = "ok"
         /\ Strip(ul[i].body) = storeLog[k].url
         /\ PublicationDate(downloaded_paths[i]) = <<storeLog[k].date>>

\* C6: each iteration of the storage loop makes a store call exactly when
\* the file of its item has a valid date token, and the loop does not end
\* before the last item, wherever the files without one are.
C6_BadNameSkipped ==
  /\ Len(storeLog) <= Len(upload_map)
  /\ \A k \in DOMAIN storeLog :
       /\ storeLog[k].url = upload_map[k][1]
       /\ storeLog[k].path = upload_map[k][2]
       /\ storeLog[k].call <=> Basename(upload_map[k][2]) \in ValidTokenNames
  /\ (upload_map # <<>> /\ pc # "store") => Len(storeLog) = Len(upload_map)

\* C6 witness: the run has completed, a file without a token and a file
\* with an invalid date were skipped, and a later file got its store call
C6_Witness ==
  /\ pc = "completed"
  /\ \E i \in DOMAIN storeLog, j \in DOMAIN storeLog, k \in DOMAIN storeLog :
       /\ i < k /\ j < k
       /\ Basename(storeLog[i].path) = NameNoToken /\ ~storeLog[i].call
       /\ Basename(storeLog[j].path) = NameBadDate /\ ~storeLog[j].call
       /\ storeLog[k].call

\* C7: a GET with exactly one of month and year is answered 400.
C7_OneFilterRejected ==
  (got.status # 0 /\ ((got.month = <<>>) # (got.year = <<>>)))
  => got.status = 400 /\ got.body = {}

\* C8: a GET with both month and year is answered with exactly the stored
\* rows of that month of that year, whatever skip and limit are.
C8_FilterExact ==
  (got.status # 0 /\ got.month # <<>> /\ got.year # <<>>)
  => /\ got.status = 200
     /\ got.body = {g \in table : /\ g.publication_date[1] = got.year[1]
                                  /\ g.publication_date[2] = got.month[1]}

\* C9: the upload stage is entered only after the download batch has
\* returned at least one file, with no download still queued or running;
\* the storage stage is entered only after the upload batch has returned
\* at least one url, with no upload still queued or running; a run whose
\* scrape stage raised or produced no file has no upload task and no
\* storage iteration.
C9_StagesGated ==
  /\ (pc = "upload" \/ ul # <<>> \/ ulCall # "none")
     => /\ dlCall = "returned"
        /\ Len(downloaded_paths) >= 1
        /\ Queued(dl) = {} /\ Running(dl) = {}
  /\ (pc \in {"store", "completed", "store_error"} \/ storeLog # <<>>
      \/ upload_map # <<>>)
     => /\ ulCall = "returned"
        /\ Len(uploaded_urls) >= 1
        /\ Queued(ul) = {} /\ Running(ul) = {}
  /\ pc \in {"scrape_error", "no_files"}
     => ul = <<>> /\ ulCall = "none" /\ uploaded_urls = <<>>
        /\ upload_map = <<>> /\ storeLog = <<>>

\* C9 witness: a run went through all three stages and made a store call
C9_Witness ==
  /\ pc = "completed"
  /\ \E k \in DOMAIN storeLog : storeLog[k].call

\* C10: a failed store call does not end the run: from the storage stage
\* the run only goes on to completion (an item is left to process, or the
\* loop is over and the run completes),
\* and a completed run has submitted each uploaded url whose file has a
\* valid date token exactly once.
C10_StoreCallsIndependent ==
  /\ upload_map # <<>> => pc \in {"store", "completed"}
  /\ pc = "store" => Len(storeLog) <= Len(upload_map)
  /\ pc = "completed"
     => \A u \in Range(uploaded_urls) :
          \E m \in DOMAIN upload_map :
            /\ upload_map[m][1] = u
            /\ Basename(upload_map[m][2]) \in ValidTokenNames
               => Cardinality({k \in DOMAIN storeLog :
                    storeLog[k].call /\ storeLog[k].url = u}) = 1

\* C10 witness: a completed run in which a store call failed and a later
\* url was still submitted
C10_Witness ==
  /\ pc = "completed"
  /\ \E j \in DOMAIN storeLog, k \in DOMAIN storeLog :
       /\ j < k
       /\ storeLog[j].call /\ ~storeLog[j].stored
       /\ storeLog[k].call

\* positions at which run_full_workflow has returned
EndOfRun == {"scrape_error", "no_files", "upload_error", "no_uploads",
             "completed"}

\* C11 as stated: when the run has ended, no downloaded file is left under
\* the download directory.
C11_NoFileLeft == pc \in EndOfRun => disk = {}

\* C11 as amended: a file written by a download is not removed by the run;
\* it is under the download directory in every later state, the end of the
\* run included.
C11_FilesKept ==
  \A i \in DOMAIN dl :
    dl[i].st \in {"writing", "ok"}
    => \E f \in disk : f[1] = SavePath(links[i])

\* C11 witness: a completed run (downloaded, uploaded, stored) whose file is
\* still on disk
C11_Witness ==
  /\ pc = "completed"
  /\ \E i \in DOMAIN dl :
       dl[i].st = "ok" /\ <<SavePath(links[i]), links[i]>> \in disk

\* C12: no two download tasks in flight at the same time have the same
\* local path, and when the batch has returned each path of the result
\* holds the content of the link it was derived from.
C12_NoSharedPath ==
  /\ \A i \in Running(dl), j \in Running(dl) :
       i # j => SavePath(links[i]) # SavePath(links[j])
  /\ dlCall = "returned"
     => \A i \in DOMAIN dl :
          dl[i].st = "ok" => <<SavePath(links[i]), links[i]>> \in disk

\* C13: at most 2 downloads and at most 5 uploads are in flight, and never
\* a download and an upload at the same time.
C13_PoolsBounded ==
  /\ Cardinality(Running(dl)) <= 2
  /\ Cardinality(Running(ul)) <= 5
  /\ Running(dl) = {} \/ Running(ul) = {}
  /\ (ul # <<>> \/ ulCall # "none") => Queued(dl) = {}

\* C13 witness: five uploads in flight and a sixth file waiting for a worker
C13_Witness ==
  /\ Cardinality(Running(ul)) = 5
  /\ Queued(ul) # {}

\* C14: a session that was opened is closed when the upload stage is
\* entered and when the run has returned, whichever way the scrape stage
\* ended; a session that could not be opened is never quit.
C14_SessionClosed ==
  /\ [](/\ (pc \in {"upload", "store", "completed", "upload_error",
                    "no_uploads", "no_files"} \/ ul # <<>>)
           => driver = "quit"
        /\ pc \in EndOfRun => driver # "open"
        /\ driver = "none" => pc \in {"start", "scrape_error"}
        /\ (driver = "none" /\ pc = "scrape_error")
           => links = <<>> /\ dlCall = "none")
  /\ [][driver' # driver
        => \/ driver = "none" /\ driver' = "open"
           \/ driver = "open" /\ driver' = "quit"]_vars

\* C14 witness: an exception left the download batch and the session was
\* closed on the way out
C14_Witness ==
  /\ pc = "scrape_error"
  /\ dlCall = "raised"
  /\ driver = "quit"

====
